---- MODULE Spec2Model ----
(***************************************************************************)
(* The ChessGame React component (src/src/ChessGame.js): its useState      *)
(* cells, its event handlers, the deferred bot reply and the [game]        *)
(* effect, over a rules engine with the interface of chess.js.             *)
(*                                                                         *)
(* The rules engine is an external library (import on line 2).  It is      *)
(* modelled as a chess engine on a board of 3 files by 4 ranks with the    *)
(* piece movement, capture, promotion and check rules of chess and with    *)
(* the object behaviour of chess.js: move() and undo() mutate the object   *)
(* and keep an undo stack, fen() serialises the position only, and         *)
(* new Chess(fen) builds an object with an empty undo stack.  Castling, en *)
(* passant and the pawn double step do not exist on this board; the        *)
(* selection rules that read their flags are checked on move lists that    *)
(* carry them (SpecBot).                                                   *)
(*                                                                         *)
(* darkMode and toggleDarkMode (lines 14, 185-187) only restyle the page   *)
(* and are left out.                                                       *)
(***************************************************************************)
EXTENDS Integers, Sequences, FiniteSets, TLC

VARIABLES
    game,            \* useState(new Chess()): the Chess object of the current render
    selectedSquare,  \* useState(null)
    suggestedMove,   \* useState(null)
    botDifficulty,   \* useState(0)
    errorMessage,    \* useState('')
    winProbability,  \* useState({ white: 50, black: 50 })
    pointDifference, \* useState(0)
    moveHistory,     \* useState([]): the rows, each a sequence of tokens
    gameStatus,      \* useState('')
    timers,          \* pending setTimeout callbacks, oldest first, each with the
                     \* game object and botDifficulty its closure captured
    elapsed,         \* for each pending callback, the user actions handled since it
                     \* was scheduled
    locals           \* SpecBot, SpecScore: the function that ran, its input and result

vars == <<game, selectedSquare, suggestedMove, botDifficulty, errorMessage,
          winProbability, pointDifference, moveHistory, gameStatus, timers, elapsed,
          locals>>

---------------------------------------------------------------------------
(* Bounds of the model. *)

\* moves are accepted from the user while the position is less than MaxPly half-moves old
MaxPly == 3
\* user actions that fit into the 300 ms for which a callback is pending
MaxActionsDuringDelay == 2
\* longest legal-move list drawn in SpecBot
MaxListLen == 3
\* most pieces besides the two kings on a board drawn in SpecScore
MaxExtraPieces == 2

---------------------------------------------------------------------------
(* The rules engine: squares, pieces, boards. *)

Files == 1..3
Ranks == 1..4
Squares == Files \X Ranks
\* null, where a square is expected
NoSquare == <<0, 0>>

\* the squares in the order chess.js scans them: a4, b4, c4, a3, ... c1
SquareAt(i) == <<((i - 1) % 3) + 1, 4 - ((i - 1) \div 3)>>
SquareOrder == [i \in 1..12 |-> SquareAt(i)]

\* game.get(square) on an empty square
Empty == [type |-> "-", color |-> "-"]
Piece(t, c) == [type |-> t, color |-> c]
Other(c) == IF c = "w" THEN "b" ELSE "w"

\* the position new Chess() starts from
DefaultBoard ==
    [s \in Squares |->
        CASE s = <<1, 4>> -> Piece("k", "w")
          [] s = <<2, 2>> -> Piece("p", "w")
          [] s = <<3, 3>> -> Piece("p", "b")
          [] s = <<3, 4>> -> Piece("k", "b")
          [] OTHER -> Empty]

\* a position: what fen() serialises
Position(b, t, n) == [board |-> b, turn |-> t, moveNumber |-> n]
DefaultPosition == Position(DefaultBoard, "w", 1)

\* half-moves played to reach a position
PlyOf(pos) == 2 * (pos.moveNumber - 1) + (IF pos.turn = "b" THEN 1 ELSE 0)

---------------------------------------------------------------------------
(* Move generation. *)

KingOffsets == << <<-1, 1>>, <<0, 1>>, <<1, 1>>, <<1, 0>>,
                  <<1, -1>>, <<0, -1>>, <<-1, -1>>, <<-1, 0>> >>
KnightOffsets == << <<-2, 1>>, <<-1, 2>>, <<1, 2>>, <<2, 1>>,
                    <<2, -1>>, <<1, -2>>, <<-1, -2>>, <<-2, -1>> >>
BishopOffsets == << <<-1, 1>>, <<1, 1>>, <<1, -1>>, <<-1, -1>> >>
RookOffsets == << <<0, 1>>, <<1, 0>>, <<0, -1>>, <<-1, 0>> >>
PieceOffsets(t) ==
    CASE t = "n" -> KnightOffsets
      [] t = "b" -> BishopOffsets
      [] t = "r" -> RookOffsets
      [] OTHER -> KingOffsets
Slides(t) == t \in {"b", "r", "q"}
Promotions == <<"n", "b", "r", "q">>

Shift(s, d) == <<s[1] + d[1], s[2] + d[2]>>
Forward(c) == IF c = "w" THEN 1 ELSE -1
LastRank(c) == IF c = "w" THEN 4 ELSE 1

\* the notation of a move: piece, origin, destination and promotion
San(p, from, to, promo) == <<p, from, to, promo>>
NoSan == <<"-", NoSquare, NoSquare, "-">>

Move(c, from, to, p, promo, fl) ==
    [color |-> c, from |-> from, to |-> to, piece |-> p, promotion |-> promo,
     flags |-> fl, san |-> San(p, from, to, promo)]
\* null, where a move is expected
NoMove == Move("-", NoSquare, NoSquare, "-", "-", {})

\* a pawn move onto the last rank is one move per promotion piece
AddMove(c, from, to, p, fl) ==
    IF p = "p" /\ to[2] = LastRank(c)
    THEN [i \in 1..4 |-> Move(c, from, to, p, Promotions[i], fl \cup {"p"})]
    ELSE <<Move(c, from, to, p, "-", fl)>>

RECURSIVE Ray(_, _, _, _, _, _)
\* the moves of the piece p of colour c on from, along direction d, continuing from square s
Ray(b, c, from, p, d, s) ==
    LET to == Shift(s, d) IN
    IF to \notin Squares THEN <<>>
    ELSE IF b[to] = Empty
         THEN AddMove(c, from, to, p, {"n"})
              \o (IF Slides(p) THEN Ray(b, c, from, p, d, to) ELSE <<>>)
         ELSE IF b[to].color = c THEN <<>>
              ELSE AddMove(c, from, to, p, {"c"})

RECURSIVE Concat(_, _, _)
\* f[i] \o f[i+1] \o ... \o f[n]
Concat(f, i, n) == IF i > n THEN <<>> ELSE f[i] \o Concat(f, i + 1, n)

PawnMoves(b, c, from) ==
    LET push == Shift(from, <<0, Forward(c)>>)
        capL == Shift(from, <<-Forward(c), Forward(c)>>)
        capR == Shift(from, <<Forward(c), Forward(c)>>)
        Cap(to) == IF to \in Squares /\ b[to] # Empty /\ b[to].color = Other(c)
                   THEN AddMove(c, from, to, "p", {"c"}) ELSE <<>>
    IN (IF push \in Squares /\ b[push] = Empty
        THEN AddMove(c, from, push, "p", {"n"}) ELSE <<>>)
       \o Cap(capL) \o Cap(capR)

PieceMoves(b, c, from) ==
    LET p == b[from].type IN
    IF p = "p" THEN PawnMoves(b, c, from)
    ELSE LET offs == PieceOffsets(p) IN
         Concat([i \in 1..Len(offs) |-> Ray(b, c, from, p, offs[i], from)], 1, Len(offs))

\* every move of the side c that the pieces' movement allows, in scan order
PseudoMoves(b, c) ==
    Concat([i \in 1..12 |->
              IF b[SquareAt(i)].color = c THEN PieceMoves(b, c, SquareAt(i)) ELSE <<>>],
           1, 12)

\* the board after a move
BoardAfter(b, m) ==
    [s \in Squares |->
        IF s = m.from THEN Empty
        ELSE IF s = m.to
             THEN (IF m.promotion # "-" THEN Piece(m.promotion, m.color)
                   ELSE Piece(m.piece, m.color))
             ELSE b[s]]

KingAttacked(b, c) ==
    LET ms == PseudoMoves(b, Other(c)) IN
    \E i \in 1..Len(ms) : b[ms[i].to] = Piece("k", c)

\* a move is legal when it does not leave the mover's own king attacked
LeavesKingSafe(pos, m) == ~KingAttacked(BoardAfter(pos.board, m), pos.turn)

RECURSIVE SafeMoves(_, _, _)
\* the moves among ms[i..] that are legal in pos, in order
SafeMoves(pos, ms, i) ==
    IF i > Len(ms) THEN <<>>
    ELSE (IF LeavesKingSafe(pos, ms[i]) THEN <<ms[i]>> ELSE <<>>)
         \o SafeMoves(pos, ms, i + 1)

\* game.moves({ verbose: true }): the legal moves of the side to move, in scan order
LegalMoves(pos) == SafeMoves(pos, PseudoMoves(pos.board, pos.turn), 1)

\* the position after a move
PositionAfter(pos, m) ==
    Position(BoardAfter(pos.board, m), Other(pos.turn),
             IF pos.turn = "b" THEN pos.moveNumber + 1 ELSE pos.moveNumber)

---------------------------------------------------------------------------
(* The Chess object. *)

\* new Chess(fen): the position, and nothing to undo
NewChess(pos) == [pos |-> pos, history |-> <<>>]
\* game.fen()
Fen(g) == g.pos
\* game.turn()
Turn(g) == g.pos.turn
\* game.get(square)
Get(g, square) == g.pos.board[square]
RECURSIVE PositionsWithin(_)
\* the positions at most n half-moves from the starting position
PositionsWithin(n) ==
    IF n = 0 THEN {DefaultPosition}
    ELSE LET prev == PositionsWithin(n - 1) IN
         prev \cup UNION {{PositionAfter(q, LegalMoves(q)[i]) :
                              i \in 1..Len(LegalMoves(q))} : q \in prev}
\* the legal moves of those positions, generated once
MovesTable == [q \in PositionsWithin(MaxPly + 1) |-> LegalMoves(q)]
\* game.moves({ verbose: true })
Moves(g) == IF g.pos \in DOMAIN MovesTable THEN MovesTable[g.pos] ELSE LegalMoves(g.pos)

RECURSIVE FindMove(_, _, _, _, _)
\* the first legal move from `from` to `to` that promotes to promo when it promotes
FindMove(ms, i, from, to, promo) ==
    IF i > Len(ms) THEN NoMove
    ELSE IF ms[i].from = from /\ ms[i].to = to
            /\ (ms[i].promotion = "-" \/ ms[i].promotion = promo)
         THEN ms[i]
         ELSE FindMove(ms, i + 1, from, to, promo)

\* what game.move({ from, to, promotion }) returns; NoMove when it throws or returns null
MoveResult(g, from, to, promo) == FindMove(Moves(g), 1, from, to, promo)
\* the object after game.move(m) with m legal: the old position goes onto the undo stack
ChessAfterMove(g, m) ==
    [pos |-> PositionAfter(g.pos, m), history |-> Append(g.history, g.pos)]
\* game.undo() returns null on an empty undo stack
CanUndo(g) == g.history # <<>>
\* the object after game.undo(); unchanged when there is nothing to undo
ChessAfterUndo(g) ==
    IF CanUndo(g)
    THEN [pos |-> g.history[Len(g.history)],
          history |-> SubSeq(g.history, 1, Len(g.history) - 1)]
    ELSE g

InCheck(g) == KingAttacked(g.pos.board, g.pos.turn)
IsCheckmate(g) == InCheck(g) /\ Moves(g) = <<>>
IsStalemate(g) == ~InCheck(g) /\ Moves(g) = <<>>

PiecesOn(b) == {s \in Squares : b[s] # Empty}
\* a light or a dark square
SquareColor(s) == (s[1] + s[2]) % 2
IsInsufficientMaterial(g) ==
    LET b == g.pos.board
        n == Cardinality(PiecesOn(b))
        bishops == {s \in Squares : b[s].type = "b"}
        knights == {s \in Squares : b[s].type = "n"}
    IN \/ n = 2
       \/ n = 3 /\ (Cardinality(bishops) = 1 \/ Cardinality(knights) = 1)
       \/ n = Cardinality(bishops) + 2
          /\ \A s1, s2 \in bishops : SquareColor(s1) = SquareColor(s2)

\* the same placement and side to move
SamePlacement(p, q) == p.board = q.board /\ p.turn = q.turn
\* the current position has occurred three times in the life of this object
IsThreefoldRepetition(g) ==
    Cardinality({i \in 1..Len(g.history) : SamePlacement(g.history[i], g.pos)}) + 1 >= 3
\* the fifty-move clock cannot run out within MaxPly half-moves and is not kept
IsDraw(g) == IsStalemate(g) \/ IsInsufficientMaterial(g) \/ IsThreefoldRepetition(g)

---------------------------------------------------------------------------
(* JavaScript numbers that may be NaN. *)

Num(n) == [nan |-> FALSE, n |-> n]
NaN == [nan |-> TRUE, n |-> 0]
\* 100 - x
HundredMinus(x) == IF x.nan THEN NaN ELSE Num(100 - x.n)
\* RoundedPercent with Math.floor for Math.round
FlooredPercent(w, t) == IF t = 0 THEN {NaN} ELSE {Num((100 * w) \div t)}

\* Math.round((w / t) * 100): NaN for 0 / 0; where 100 * w / t lies exactly
\* between two integers the floating-point product decides which one it is
RoundedPercent(w, t) ==
    IF t = 0 THEN {NaN}
    ELSE LET q == (100 * w) \div t
             r == (100 * w) % t
         IN IF 2 * r < t THEN {Num(q)}
            ELSE IF 2 * r > t THEN {Num(q + 1)}
            ELSE {Num(q), Num(q + 1)}

---------------------------------------------------------------------------
(* The bot's choice of a move (makeBotMove, lines 61-79). *)

\* current.flags.includes('c') || current.flags.includes('e')
IsCaptureFlag(m) == "c" \in m.flags \/ "e" \in m.flags

RECURSIVE AdvancedReduceCaptureOnly(_, _, _)
\* AdvancedReduce without the en-passant test
AdvancedReduceCaptureOnly(moves, i, best) ==
    IF i > Len(moves) THEN best
    ELSE AdvancedReduceCaptureOnly(moves, i + 1,
             IF "c" \in moves[i].flags THEN moves[i] ELSE best)

RECURSIVE AdvancedReduceFirstWins(_, _, _)
\* AdvancedReduce that keeps a capture it already holds
AdvancedReduceFirstWins(moves, i, best) ==
    IF i > Len(moves) THEN best
    ELSE AdvancedReduceFirstWins(moves, i + 1,
             IF IsCaptureFlag(moves[i]) /\ ~IsCaptureFlag(best) THEN moves[i] ELSE best)

RECURSIVE AdvancedReduce(_, _, _)
\* lines 66-68: moves.reduce((best, current) => capture ? current : best, seed)
AdvancedReduce(moves, i, best) ==
    IF i > Len(moves) THEN best
    ELSE AdvancedReduce(moves, i + 1, IF IsCaptureFlag(moves[i]) THEN moves[i] ELSE best)

\* GrandMasterScore with the queen-side castling flag for the king-side one
GrandMasterScoreQueenSide(m) ==
    IF IsCaptureFlag(m) THEN 2
    ELSE IF "p" \in m.flags \/ "q" \in m.flags THEN 1 ELSE 0

\* lines 72-73
GrandMasterScore(m) ==
    IF IsCaptureFlag(m) THEN 2
    ELSE IF "p" \in m.flags \/ "k" \in m.flags THEN 1 ELSE 0

RECURSIVE GrandMasterReduce(_, _, _)
\* lines 71-75: a move replaces best when its score is strictly greater
GrandMasterReduce(moves, i, best) ==
    IF i > Len(moves) THEN best
    ELSE LET score == GrandMasterScore(moves[i]) IN
         GrandMasterReduce(moves, i + 1,
             IF score > best.score THEN [move |-> moves[i], score |-> score] ELSE best)

\* the move makeBotMove picks from a non-empty list; random is the index
\* Math.floor(Math.random() * moves.length) + 1
chooseBotMove(moves, difficulty, random) ==
    CASE difficulty = 1 -> moves[random]
      [] difficulty = 2 -> AdvancedReduce(moves, 1, moves[random])
      [] difficulty = 3 ->
            GrandMasterReduce(moves, 1, [move |-> moves[1], score |-> -1]).move
      [] OTHER -> moves[random]

---------------------------------------------------------------------------
(* The [game] effect (lines 18-22): suggestMove, calculateWinProbability,  *)
(* checkGameStatus, each run on the game of the render.                    *)

\* lines 91-92
SuggestScore(m) ==
    IF "c" \in m.flags \/ "e" \in m.flags THEN 2
    ELSE IF "p" \in m.flags \/ "k" \in m.flags THEN 1 ELSE 0

RECURSIVE SuggestReduceLastWins(_, _, _)
\* SuggestReduce with >= for >: among equal scores the last move wins
SuggestReduceLastWins(moves, i, best) ==
    IF i > Len(moves) THEN best
    ELSE LET score == SuggestScore(moves[i]) IN
         SuggestReduceLastWins(moves, i + 1,
             IF score >= best.score THEN [move |-> moves[i], score |-> score] ELSE best)

RECURSIVE SuggestReduce(_, _, _)
\* lines 90-94
SuggestReduce(moves, i, best) ==
    IF i > Len(moves) THEN best
    ELSE LET score == SuggestScore(moves[i]) IN
         SuggestReduce(moves, i + 1,
             IF score > best.score THEN [move |-> moves[i], score |-> score] ELSE best)

\* suggestedMove after suggestMove() on the list moves; prev is its value before
suggestMove(moves, prev) ==
    IF Len(moves) > 0
    THEN SuggestReduce(moves, 1, [move |-> moves[1], score |-> -1]).move
    ELSE prev

\* pieceValues with the rook valued as a bishop
pieceValuesRookAsBishop(t) ==
    CASE t = "p" -> 1 [] t = "n" -> 3 [] t = "b" -> 3
      [] t = "r" -> 3 [] t = "q" -> 9 [] OTHER -> 0

\* line 100
pieceValues(t) ==
    CASE t = "p" -> 1 [] t = "n" -> 3 [] t = "b" -> 3
      [] t = "r" -> 5 [] t = "q" -> 9 [] OTHER -> 0

RECURSIVE SumScore(_, _, _)
\* lines 104-114: the values of the pieces of colour c on squares i..12
SumScore(b, c, i) ==
    IF i > 12 THEN 0
    ELSE (IF b[SquareAt(i)] # Empty /\ b[SquareAt(i)].color = c
          THEN pieceValues(b[SquareAt(i)].type) ELSE 0)
         + SumScore(b, c, i + 1)
whiteScore(b) == SumScore(b, "w", 1)
blackScore(b) == SumScore(b, "b", 1)

\* lines 116-119: the values calculateWinProbability() may set
calculateWinProbability(b) ==
    LET totalScore == whiteScore(b) + blackScore(b) IN
    {[winProbability |-> [white |-> whiteProbability,
                          black |-> HundredMinus(whiteProbability)],
      pointDifference |-> whiteScore(b) - blackScore(b)] :
        whiteProbability \in RoundedPercent(whiteScore(b), totalScore)}

\* checkGameStatus with the winner test the other way round: the side to move wins
checkGameStatusWinnerToMove(g) ==
    IF IsCheckmate(g)
    THEN (IF Turn(g) = "w" THEN "Checkmate! White wins!" ELSE "Checkmate! Black wins!")
    ELSE IF IsDraw(g) THEN "Draw!"
    ELSE IF IsStalemate(g) THEN "Stalemate!"
    ELSE IF IsThreefoldRepetition(g) THEN "Draw by threefold repetition!"
    ELSE IF IsInsufficientMaterial(g) THEN "Draw by insufficient material!"
    ELSE ""

\* lines 169-183: gameStatus after checkGameStatus()
checkGameStatus(g) ==
    IF IsCheckmate(g)
    THEN (IF Turn(g) = "w" THEN "Checkmate! Black wins!" ELSE "Checkmate! White wins!")
    ELSE IF IsDraw(g) THEN "Draw!"
    ELSE IF IsStalemate(g) THEN "Stalemate!"
    ELSE IF IsThreefoldRepetition(g) THEN "Draw by threefold repetition!"
    ELSE IF IsInsufficientMaterial(g) THEN "Draw by insufficient material!"
    ELSE ""

\* the effect, run after a render whose game is the new object g
RunEffect(g) ==
    /\ suggestedMove' = suggestMove(Moves(g), suggestedMove)
    /\ \E v \in calculateWinProbability(g.pos.board) :
          /\ winProbability' = v.winProbability
          /\ pointDifference' = v.pointDifference
    /\ gameStatus' = checkGameStatus(g)

---------------------------------------------------------------------------
(* The move history (lines 189-199).  A row is the sequence of the tokens  *)
(* that the template strings join with spaces.                             *)

\* `${moveNumber}.`
NumberToken(n) == [kind |-> "number", n |-> n, san |-> NoSan]
\* `${move.san}`
SanToken(m) == [kind |-> "san", n |-> 0, san |-> m.san]
\* `${lastMove}` with lastMove undefined
UndefinedToken == [kind |-> "undefined", n |-> 0, san |-> NoSan]

updateMoveHistory(prevHistory, move, player) ==
    LET moveNumber == (Len(prevHistory) \div 2) + 1 IN
    IF player = "player"
    THEN Append(prevHistory, <<NumberToken(moveNumber), SanToken(move)>>)
    ELSE LET lastMove == IF prevHistory = <<>> THEN <<UndefinedToken>>
                         ELSE prevHistory[Len(prevHistory)]
         IN SubSeq(prevHistory, 1, Len(prevHistory) - 1)
            \o <<Append(lastMove, SanToken(move))>>

---------------------------------------------------------------------------
(* The handlers.  Each runs in the closure of the current render, so it    *)
(* reads the state cells as they are; the setState calls of one handler    *)
(* take effect together, and the [game] effect runs when game was set.     *)

\* the functions that ran on their own, the legal-move list and the random index
\* they were given and the move makeBotMove picked; empty in the component
Locals(ran, moves, random, move) ==
    [ran |-> ran, moves |-> moves, random |-> random, move |-> move]
NoLocals == Locals({}, <<>>, 0, NoMove)

\* makeMove without setSelectedSquare(null) in the rejection paths
makeMoveKeepsSelection(from, to) ==
    LET move == MoveResult(game, from, to, "q")
        moved == ChessAfterMove(game, move)
    IN IF move # NoMove
       THEN /\ game' = NewChess(Fen(moved))
            /\ selectedSquare' = NoSquare
            /\ errorMessage' = ""
            /\ moveHistory' = updateMoveHistory(moveHistory, move, "player")
            /\ timers' = Append(timers, [game |-> moved, botDifficulty |-> botDifficulty])
            /\ RunEffect(NewChess(Fen(moved)))
            /\ UNCHANGED <<botDifficulty, locals>>
       ELSE /\ errorMessage' = "Invalid move"
            /\ UNCHANGED <<locals, game, selectedSquare, suggestedMove, botDifficulty,
                           winProbability, pointDifference, moveHistory, gameStatus, timers>>

\* lines 24-42
makeMove(from, to) ==
    LET move == MoveResult(game, from, to, "q")
        moved == ChessAfterMove(game, move)
    IN IF move # NoMove
       THEN /\ game' = NewChess(Fen(moved))
            /\ selectedSquare' = NoSquare
            /\ errorMessage' = ""
            /\ moveHistory' = updateMoveHistory(moveHistory, move, "player")
            /\ timers' = Append(timers, [game |-> moved, botDifficulty |-> botDifficulty])
            /\ RunEffect(NewChess(Fen(moved)))
            /\ UNCHANGED <<botDifficulty, locals>>
       ELSE /\ errorMessage' = "Invalid move"
            /\ selectedSquare' = NoSquare
            /\ UNCHANGED <<locals, game, suggestedMove, botDifficulty, winProbability,
                           pointDifference, moveHistory, gameStatus, timers>>

\* handleSquareClick with the third test reduced to `piece`: any piece can be selected
handleSquareClickAnyPiece(square) ==
    LET piece == Get(game, square) IN
    IF selectedSquare = square
    THEN /\ selectedSquare' = NoSquare
         /\ UNCHANGED <<locals, game, suggestedMove, botDifficulty, errorMessage, winProbability,
                        pointDifference, moveHistory, gameStatus, timers>>
    ELSE IF selectedSquare # NoSquare
    THEN makeMove(selectedSquare, square)
    ELSE IF piece # Empty
    THEN /\ selectedSquare' = square
         /\ UNCHANGED <<locals, game, suggestedMove, botDifficulty, errorMessage, winProbability,
                        pointDifference, moveHistory, gameStatus, timers>>
    ELSE /\ errorMessage' = "Select a valid piece"
         /\ UNCHANGED <<locals, game, selectedSquare, suggestedMove, botDifficulty, winProbability,
                        pointDifference, moveHistory, gameStatus, timers>>

\* handleSquareClick without setSelectedSquare(null) in its first branch
handleSquareClickKeepsSelection(square) ==
    LET piece == Get(game, square) IN
    IF selectedSquare = square
    THEN UNCHANGED <<locals, game, selectedSquare, suggestedMove, botDifficulty, errorMessage,
                     winProbability, pointDifference, moveHistory, gameStatus, timers>>
    ELSE IF selectedSquare # NoSquare
    THEN makeMove(selectedSquare, square)
    ELSE IF piece # Empty /\ piece.color = Turn(game)
    THEN /\ selectedSquare' = square
         /\ UNCHANGED <<locals, game, suggestedMove, botDifficulty, errorMessage, winProbability,
                        pointDifference, moveHistory, gameStatus, timers>>
    ELSE /\ errorMessage' = "Select a valid piece"
         /\ UNCHANGED <<locals, game, selectedSquare, suggestedMove, botDifficulty, winProbability,
                        pointDifference, moveHistory, gameStatus, timers>>

\* lines 44-55
handleSquareClick(square) ==
    LET piece == Get(game, square) IN
    IF selectedSquare = square
    THEN /\ selectedSquare' = NoSquare
         /\ UNCHANGED <<locals, game, suggestedMove, botDifficulty, errorMessage, winProbability,
                        pointDifference, moveHistory, gameStatus, timers>>
    ELSE IF selectedSquare # NoSquare
    THEN makeMove(selectedSquare, square)
    ELSE IF piece # Empty /\ piece.color = Turn(game)
    THEN /\ selectedSquare' = square
         /\ UNCHANGED <<locals, game, suggestedMove, botDifficulty, errorMessage, winProbability,
                        pointDifference, moveHistory, gameStatus, timers>>
    ELSE /\ errorMessage' = "Select a valid piece"
         /\ UNCHANGED <<locals, game, selectedSquare, suggestedMove, botDifficulty, winProbability,
                        pointDifference, moveHistory, gameStatus, timers>>

\* makeBotMove with updateMoveHistory after the if, so that it also runs without a move
makeBotMoveAlwaysRecords(closure) ==
    LET moves == Moves(closure.game) IN
    IF Len(moves) > 0
    THEN \E random \in 1..Len(moves) :
            LET move == chooseBotMove(moves, closure.botDifficulty, random)
                moved == ChessAfterMove(closure.game, move)
            IN /\ game' = NewChess(Fen(moved))
               /\ moveHistory' = updateMoveHistory(moveHistory, move, "bot")
               /\ RunEffect(NewChess(Fen(moved)))
               /\ UNCHANGED <<selectedSquare, botDifficulty, errorMessage, locals>>
    ELSE /\ moveHistory' = updateMoveHistory(moveHistory, NoMove, "bot")
         /\ UNCHANGED <<locals, game, selectedSquare, suggestedMove, botDifficulty, errorMessage,
                        winProbability, pointDifference, gameStatus>>

\* makeBotMove that takes botDifficulty from the current state and not from its closure
makeBotMoveCurrentDifficulty(closure) ==
    LET moves == Moves(closure.game) IN
    IF Len(moves) > 0
    THEN \E random \in 1..Len(moves) :
            LET move == chooseBotMove(moves, botDifficulty, random)
                moved == ChessAfterMove(closure.game, move)
            IN /\ game' = NewChess(Fen(moved))
               /\ moveHistory' = updateMoveHistory(moveHistory, move, "bot")
               /\ RunEffect(NewChess(Fen(moved)))
               /\ UNCHANGED <<selectedSquare, botDifficulty, errorMessage, locals>>
    ELSE UNCHANGED <<locals, game, selectedSquare, suggestedMove, botDifficulty, errorMessage,
                        winProbability, pointDifference, moveHistory, gameStatus>>

\* lines 57-84, run by a timer: game and botDifficulty are those of the closure
\* that makeMove handed to setTimeout
makeBotMove(closure) ==
    LET moves == Moves(closure.game) IN
    IF Len(moves) > 0
    THEN \E random \in 1..Len(moves) :
            LET move == chooseBotMove(moves, closure.botDifficulty, random)
                moved == ChessAfterMove(closure.game, move)
            IN /\ game' = NewChess(Fen(moved))
               /\ moveHistory' = updateMoveHistory(moveHistory, move, "bot")
               /\ RunEffect(NewChess(Fen(moved)))
               /\ UNCHANGED <<selectedSquare, botDifficulty, errorMessage, locals>>
    ELSE UNCHANGED <<locals, game, selectedSquare, suggestedMove, botDifficulty, errorMessage,
                        winProbability, pointDifference, moveHistory, gameStatus>>

\* resetGame that also cancels the pending callbacks
resetGameClearsTimers ==
    /\ game' = NewChess(DefaultPosition)
    /\ selectedSquare' = NoSquare
    /\ moveHistory' = <<>>
    /\ errorMessage' = ""
    /\ timers' = <<>>
    /\ RunEffect(NewChess(DefaultPosition))
    /\ UNCHANGED <<botDifficulty, locals>>

\* lines 201-207
resetGame ==
    /\ game' = NewChess(DefaultPosition)
    /\ selectedSquare' = NoSquare
    /\ moveHistory' = <<>>
    /\ errorMessage' = ""
    /\ RunEffect(NewChess(DefaultPosition))
    /\ UNCHANGED <<botDifficulty, timers, locals>>

\* lines 209-216
undoMove ==
    IF CanUndo(game)
    THEN LET undone == ChessAfterUndo(ChessAfterUndo(game)) IN
         /\ game' = NewChess(Fen(undone))
         /\ moveHistory' = SubSeq(moveHistory, 1, Len(moveHistory) - 1)
         /\ RunEffect(NewChess(Fen(undone)))
         /\ UNCHANGED <<selectedSquare, botDifficulty, errorMessage, timers, locals>>
    ELSE UNCHANGED <<locals, game, selectedSquare, suggestedMove, botDifficulty, errorMessage,
                        winProbability, pointDifference, moveHistory, gameStatus, timers>>

\* line 296
setBotDifficulty(index) ==
    /\ botDifficulty' = index
    /\ UNCHANGED <<locals, game, selectedSquare, suggestedMove, errorMessage, winProbability,
                   pointDifference, moveHistory, gameStatus, timers>>

\* line 32: 300 ms after makeMove the oldest pending callback runs
TimerFires ==
    /\ timers # <<>>
    /\ makeBotMove(Head(timers))
    /\ timers' = Tail(timers)
    /\ elapsed' = Tail(elapsed)

---------------------------------------------------------------------------
(* The component: mounted, then driven by clicks and timers. *)

\* lines 7-22: the initial state cells, after the effect of the first render
Init ==
    /\ game = NewChess(DefaultPosition)
    /\ selectedSquare = NoSquare
    /\ suggestedMove = suggestMove(Moves(NewChess(DefaultPosition)), NoMove)
    /\ botDifficulty = 0
    /\ errorMessage = ""
    /\ \E v \in calculateWinProbability(DefaultBoard) :
          /\ winProbability = v.winProbability
          /\ pointDifference = v.pointDifference
    /\ moveHistory = <<>>
    /\ gameStatus = checkGameStatus(NewChess(DefaultPosition))
    /\ timers = <<>>
    /\ elapsed = <<>>
    /\ locals = NoLocals

\* a click that asks for a move is made while the game is within the bound
WithinBounds(square) ==
    (selectedSquare # NoSquare /\ selectedSquare # square) => PlyOf(game.pos) < MaxPly

\* the user acts while every pending callback has time left; the action is
\* counted against each of them, and a callback it scheduled starts at 0
UserAction(Handler) ==
    /\ \A i \in 1..Len(elapsed) : elapsed[i] < MaxActionsDuringDelay
    /\ Handler
    /\ elapsed' = [i \in 1..Len(elapsed) |-> elapsed[i] + 1]
                  \o (IF Len(timers') > Len(timers) THEN <<0>> ELSE <<>>)

Next ==
    \/ \E square \in Squares :
          WithinBounds(square) /\ UserAction(handleSquareClick(square))
    \/ TimerFires
    \/ UserAction(resetGame)
    \/ UserAction(undoMove)
    \/ \E index \in 0..3 : UserAction(setBotDifficulty(index))

Spec == Init /\ [][Next]_vars

\* the event loop runs every callback whose delay has elapsed
FairSpec == Spec /\ WF_vars(TimerFires)

---------------------------------------------------------------------------
(* SpecBot: suggestMove and the bot's choice, each run on one legal-move    *)
(* list of the engine.  The lists are those of up to MaxListLen moves with  *)
(* any of the flag sets chess.js gives a move.                              *)

\* n normal, b pawn double step, e en passant, c capture, p promotion,
\* k and q castling
FlagSets == {{"n"}, {"b"}, {"e"}, {"c"}, {"n", "p"}, {"c", "p"}, {"k"}, {"q"}}
\* the i-th move of a list: the moves of a list differ in their squares
ListMove(i, fl) == Move("b", SquareAt(i), SquareAt(i + 3), "p", "-", fl)
MoveLists ==
    UNION {{[i \in 1..n |-> ListMove(i, f[i])] : f \in [1..n -> FlagSets]} :
              n \in 1..MaxListLen}

InitBot ==
    /\ game = NewChess(DefaultPosition)
    /\ selectedSquare = NoSquare
    /\ suggestedMove = NoMove
    /\ botDifficulty \in 0..3
    /\ errorMessage = ""
    /\ winProbability = [white |-> Num(50), black |-> Num(50)]
    /\ pointDifference = 0
    /\ moveHistory = <<>>
    /\ gameStatus = ""
    /\ timers = <<>>
    /\ elapsed = <<>>
    /\ \E moves \in MoveLists : \E random \in 1..Len(moves) :
          locals = Locals({}, moves, random, NoMove)

\* lines 86-97 with moves = locals.moves
SuggestOnList ==
    /\ "suggestMove" \notin locals.ran
    /\ suggestedMove' = suggestMove(locals.moves, suggestedMove)
    /\ locals' = [locals EXCEPT !.ran = @ \cup {"suggestMove"}]
    /\ UNCHANGED <<game, selectedSquare, botDifficulty, errorMessage, winProbability,
                   pointDifference, moveHistory, gameStatus, timers, elapsed>>

\* lines 58-79 with moves = locals.moves
BotOnList ==
    /\ "makeBotMove" \notin locals.ran
    /\ locals' = [locals EXCEPT
                    !.ran = @ \cup {"makeBotMove"},
                    !.move = chooseBotMove(locals.moves, botDifficulty, locals.random)]
    /\ UNCHANGED <<game, selectedSquare, suggestedMove, botDifficulty, errorMessage,
                   winProbability, pointDifference, moveHistory, gameStatus, timers,
                   elapsed>>

NextBot == SuggestOnList \/ BotOnList

SpecBot == InitBot /\ [][NextBot]_vars

---------------------------------------------------------------------------
(* SpecScore: calculateWinProbability on one board.  The boards hold the    *)
(* two kings and up to MaxExtraPieces further pieces.                       *)

ExtraSquares == {<<1, 2>>, <<2, 2>>, <<3, 2>>, <<2, 3>>}
ExtraPieces == {Piece(t, c) : t \in {"p", "n", "b", "r", "q"}, c \in {"w", "b"}}
ScoreBoards ==
    {[s \in Squares |->
        CASE s = <<1, 4>> -> Piece("k", "w")
          [] s = <<3, 4>> -> Piece("k", "b")
          [] OTHER -> IF s \in ExtraSquares THEN e[s] ELSE Empty] :
     e \in {f \in [ExtraSquares -> ExtraPieces \cup {Empty}] :
               Cardinality({s \in ExtraSquares : f[s] # Empty}) <= MaxExtraPieces}}

InitScore ==
    /\ \E b \in ScoreBoards : game = NewChess(Position(b, "w", 1))
    /\ selectedSquare = NoSquare
    /\ suggestedMove = NoMove
    /\ botDifficulty = 0
    /\ errorMessage = ""
    /\ winProbability = [white |-> Num(50), black |-> Num(50)]
    /\ pointDifference = 0
    /\ moveHistory = <<>>
    /\ gameStatus = ""
    /\ timers = <<>>
    /\ elapsed = <<>>
    /\ locals = NoLocals

\* lines 99-120 on the board of game
CalculateOnBoard ==
    /\ locals.ran = {}
    /\ \E v \in calculateWinProbability(game.pos.board) :
          /\ winProbability' = v.winProbability
          /\ pointDifference' = v.pointDifference
    /\ locals' = [locals EXCEPT !.ran = {"calculateWinProbability"}]
    /\ UNCHANGED <<game, selectedSquare, suggestedMove, botDifficulty, errorMessage,
                   moveHistory, gameStatus, timers, elapsed>>

NextScore == CalculateOnBoard

SpecScore == InitScore /\ [][NextScore]_vars

---------------------------------------------------------------------------
(* The claims. *)

\* a move flagged capture or en passant, as the claims say it
FlaggedCapture(m) == m.flags \cap {"c", "e"} # {}
ListHasCapture(moves) == \E i \in 1..Len(moves) : FlaggedCapture(moves[i])

\* C5: on every non-empty legal-move list, suggestMove and the Grand Master tier
\* (botDifficulty = 3) select the same move.
C5_SuggestEqualsGrandMaster ==
    ({"suggestMove", "makeBotMove"} \subseteq locals.ran /\ botDifficulty = 3)
        => suggestedMove = locals.move

\* C5 witness: both ran on a list whose best move is not its first and ties with a later one
C5_Witness ==
    /\ {"suggestMove", "makeBotMove"} \subseteq locals.ran
    /\ botDifficulty = 3
    /\ Len(locals.moves) = 3
    /\ locals.move = locals.moves[2]
    /\ locals.moves[3].flags = locals.moves[2].flags

\* C6: on every non-empty legal-move list and for every random seed, the Advanced
\* tier (botDifficulty = 2) returns a move flagged capture or en passant when the list
\* holds one, and otherwise the seed move, a member of the list.
C6_AdvancedPrefersCapture ==
    ("makeBotMove" \in locals.ran /\ botDifficulty = 2)
        => /\ \E i \in 1..Len(locals.moves) : locals.move = locals.moves[i]
           /\ ListHasCapture(locals.moves) => FlaggedCapture(locals.move)
           /\ ~ListHasCapture(locals.moves) => locals.move = locals.moves[locals.random]

\* C6 witness: the Advanced tier ran with a seed that is no capture on a list whose
\* only capture is en passant
C6_Witness ==
    /\ "makeBotMove" \in locals.ran
    /\ botDifficulty = 2
    /\ ~FlaggedCapture(locals.moves[locals.random])
    /\ \E i \in 1..Len(locals.moves) : locals.moves[i].flags = {"e"}
    /\ \A i \in 1..Len(locals.moves) : "c" \notin locals.moves[i].flags

\* an integer from 0 to 100, and not NaN
IsPercent(x) == ~x.nan /\ x.n \in 0..100

\* C7: with a material score of zero on both sides, calculateWinProbability yields a
\* defined fallback: both probabilities are integers in 0..100, none is NaN.
C7_ZeroMaterialFallback ==
    (locals.ran = {"calculateWinProbability"}
        /\ whiteScore(game.pos.board) = 0 /\ blackScore(game.pos.board) = 0)
        => IsPercent(winProbability.white) /\ IsPercent(winProbability.black)

\* C8: with nonzero total material, whiteProbability is 100 * whiteScore /
\* (whiteScore + blackScore) rounded to the nearest integer, blackProbability is
\* 100 - whiteProbability, both lie in 0..100 and they sum to 100.
C8_ProbabilitiesSumTo100 ==
    LET w == whiteScore(game.pos.board)
        t == whiteScore(game.pos.board) + blackScore(game.pos.board)
    IN (locals.ran = {"calculateWinProbability"} /\ t # 0)
        => /\ IsPercent(winProbability.white) /\ IsPercent(winProbability.black)
           /\ 2 * winProbability.white.n * t - 200 * w \in (0 - t)..t
           /\ winProbability.black.n = 100 - winProbability.white.n
           /\ winProbability.white.n + winProbability.black.n = 100

\* C8 witness: calculateWinProbability ran on a board where the quotient is rounded up
C8_Witness ==
    LET w == whiteScore(game.pos.board)
        t == whiteScore(game.pos.board) + blackScore(game.pos.board)
    IN /\ locals.ran = {"calculateWinProbability"}
       /\ t # 0
       /\ 2 * ((100 * w) % t) > t
       /\ winProbability.white.n = ((100 * w) \div t) + 1

\* the last row of the move history
LastRow(h) == h[Len(h)]
\* the history without its last row
AllButLastRow(h) == SubSeq(h, 1, Len(h) - 1)
\* the set of the moves of a list
MoveSet(ms) == {ms[i] : i \in 1..Len(ms)}

\* C1: an accepted human move is in the position, clears the selection and the error,
\* appends the row <n, human notation> and schedules one bot reply; when the user does
\* nothing during the delay and the position has a legal move, the reply is applied to
\* that position and completes the same row to <n, human notation, bot notation>.
C1_HumanMoveThenBotReply ==
    [][/\ \A sq \in Squares :
            LET m == MoveResult(game, selectedSquare, sq, "q") IN
            (/\ UserAction(handleSquareClick(sq))
             /\ selectedSquare \notin {NoSquare, sq}
             /\ m # NoMove)
            => /\ game'.pos = PositionAfter(game.pos, m)
               /\ selectedSquare' = NoSquare
               /\ errorMessage' = ""
               /\ AllButLastRow(moveHistory') = moveHistory
               /\ \E n \in 1..Len(moveHistory') :
                     LastRow(moveHistory') = <<NumberToken(n), SanToken(m)>>
               /\ Len(timers') = Len(timers) + 1
       /\ (/\ TimerFires
           /\ elapsed[1] = 0
           /\ Moves(Head(timers).game) # <<>>)
          => LET replied == Head(timers).game
                 before == replied.history[Len(replied.history)]
             IN \E h \in MoveSet(LegalMoves(before)), b \in MoveSet(Moves(replied)) :
                   /\ PositionAfter(before, h) = replied.pos
                   /\ game'.pos = PositionAfter(replied.pos, b)
                   /\ AllButLastRow(moveHistory') = AllButLastRow(moveHistory)
                   /\ \E n \in 1..Len(moveHistory') :
                         LastRow(moveHistory') = <<NumberToken(n), SanToken(h), SanToken(b)>>
      ]_vars

\* C2: with a square selected, a click on another square for which the engine rejects
\* the move sets the error to 'Invalid move' and clears the selection; the position and
\* the history are unchanged and no bot reply is scheduled.
C2_RejectedMove ==
    [][\A sq \in Squares :
          (/\ UserAction(handleSquareClick(sq))
           /\ selectedSquare \notin {NoSquare, sq}
           /\ MoveResult(game, selectedSquare, sq, "q") = NoMove)
          => /\ errorMessage' = "Invalid move"
             /\ selectedSquare' = NoSquare
             /\ game' = game
             /\ moveHistory' = moveHistory
             /\ timers' = timers
      ]_vars

\* C2 witness: in the starting position a move was attempted and rejected
C2_Witness ==
    /\ errorMessage = "Invalid move"
    /\ selectedSquare = NoSquare
    /\ game = NewChess(DefaultPosition)
    /\ moveHistory = <<>>
    /\ timers = <<>>

\* the history ends with a row of a number, a human notation and a bot notation, and no
\* reply is pending
CompletedPair ==
    /\ moveHistory # <<>>
    /\ timers = <<>>
    /\ Len(LastRow(moveHistory)) = 3
    /\ LastRow(moveHistory)[1].kind = "number"

\* C3: after an accepted human move and its applied bot reply, undoMove removes both
\* moves, so the position is the one before the human move, and removes the last row.
C3_UndoRevertsPair ==
    CompletedPair
    => ENABLED (/\ UserAction(undoMove)
                /\ moveHistory' = AllButLastRow(moveHistory)
                /\ \E h \in MoveSet(LegalMoves(game'.pos)) :
                      \E b \in MoveSet(LegalMoves(PositionAfter(game'.pos, h))) :
                         /\ PositionAfter(PositionAfter(game'.pos, h), b) = game.pos
                         /\ LastRow(moveHistory)[2] = SanToken(h)
                         /\ LastRow(moveHistory)[3] = SanToken(b))

\* C4: after accepted human moves, each followed by its bot reply, row k of the history
\* starts with the turn number k.
C4_RowsNumberedConsecutively ==
    (/\ timers = <<>>
     /\ \A k \in 1..Len(moveHistory) :
           Len(moveHistory[k]) = 3 /\ moveHistory[k][1].kind = "number")
    => \A k \in 1..Len(moveHistory) : moveHistory[k][1] = NumberToken(k)

\* C9: the suggested move is a legal move of the current position, and none when the
\* current position has no legal move.
C9_SuggestionIsCurrent ==
    IF Moves(game) = <<>> THEN suggestedMove = NoMove
    ELSE suggestedMove \in MoveSet(Moves(game))

\* C10: with nothing selected, a click on a piece of the side to move selects its
\* square; a click on the selected square clears the selection; neither changes the
\* position, the history or the pending replies.
C10_SelectThenDeselect ==
    [][\A sq \in Squares :
          UserAction(handleSquareClick(sq))
          => /\ (/\ selectedSquare = NoSquare
                 /\ Get(game, sq) # Empty
                 /\ Get(game, sq).color = Turn(game))
                => (selectedSquare' = sq /\ UNCHANGED <<game, moveHistory, timers>>)
             /\ selectedSquare = sq
                => (selectedSquare' = NoSquare /\ UNCHANGED <<game, moveHistory, timers>>)
      ]_vars

\* C10 witness: a piece of the side to move is selected, in the starting position
C10_Witness ==
    /\ selectedSquare # NoSquare
    /\ Get(game, selectedSquare).color = Turn(game)
    /\ game = NewChess(DefaultPosition)
    /\ moveHistory = <<>>
    /\ timers = <<>>


\* C11: with nothing selected, a click on a square that is empty or holds a piece of
\* the side not to move sets the error to 'Select a valid piece'; the selection stays
\* none, the position and the history are unchanged and no bot reply is scheduled.
C11_InvalidSelection ==
    [][\A sq \in Squares :
          (/\ selectedSquare = NoSquare
           /\ (Get(game, sq) = Empty \/ Get(game, sq).color # Turn(game))
           /\ UserAction(handleSquareClick(sq)))
          => /\ errorMessage' = "Select a valid piece"
             /\ selectedSquare' = NoSquare
             /\ game' = game
             /\ moveHistory' = moveHistory
             /\ timers' = timers
      ]_vars

\* C11 witness: in the starting position a click selected nothing and set the error
C11_Witness ==
    /\ errorMessage = "Select a valid piece"
    /\ selectedSquare = NoSquare
    /\ game = NewChess(DefaultPosition)
    /\ moveHistory = <<>>
    /\ timers = <<>>

\* C12: a bot reply that fires on a position without legal moves does nothing: the
\* position, the history, the selection and the error are unchanged.
C12_NoMovesNoAction ==
    [][(TimerFires /\ Moves(Head(timers).game) = <<>>)
          => UNCHANGED <<game, moveHistory, selectedSquare, errorMessage>>
      ]_vars

\* C12 witness: the reply to a human move that left no legal move has fired, and the
\* row of that move is as the move left it
C12_Witness ==
    /\ timers = <<>>
    /\ Moves(game) = <<>>
    /\ moveHistory # <<>>
    /\ Len(LastRow(moveHistory)) = 2

\* C13: whenever the engine reports insufficient material for the current position,
\* the status is the insufficient-material draw message.
C13_InsufficientMaterialStatus ==
    IsInsufficientMaterial(game) => gameStatus = "Draw by insufficient material!"

\* the message of the first pair of a list of <<predicate, message>> whose predicate
\* holds, and the empty message when none holds
RECURSIVE FirstMessage(_, _)
FirstMessage(pairs, i) ==
    IF i > Len(pairs) THEN ""
    ELSE IF pairs[i][1] THEN pairs[i][2]
    ELSE FirstMessage(pairs, i + 1)
\* the side that is not to move
SideNotToMove(g) == IF Turn(g) = "w" THEN "Black" ELSE "White"
\* the status by the priority order checkmate, generic draw, stalemate, threefold
\* repetition, insufficient material
StatusByPriority(g) ==
    FirstMessage(<< <<IsCheckmate(g),
                      IF SideNotToMove(g) = "Black" THEN "Checkmate! Black wins!"
                                                    ELSE "Checkmate! White wins!">>,
                    <<IsDraw(g), "Draw!">>,
                    <<IsStalemate(g), "Stalemate!">>,
                    <<IsThreefoldRepetition(g), "Draw by threefold repetition!">>,
                    <<IsInsufficientMaterial(g), "Draw by insufficient material!">> >>, 1)

\* C14: the status is the message of the first predicate that holds for the current
\* position in the order checkmate, generic draw, stalemate, threefold repetition,
\* insufficient material, and empty when none holds; the checkmate message names the
\* side not to move as the winner.
C14_StatusByPriority == gameStatus = StatusByPriority(game)

\* C14 witness: after a move, black to move is checkmated and white is named the winner
C14_Witness ==
    /\ IsCheckmate(game)
    /\ Turn(game) = "b"
    /\ moveHistory # <<>>
    /\ gameStatus = "Checkmate! White wins!"

\* the number of pieces of type t and colour c on board b
CountOf(b, t, c) == Cardinality({s \in Squares : b[s] = Piece(t, c)})
\* pawn = 1, knight = 3, bishop = 3, rook = 5, queen = 9, king = 0, summed for side c
Material(b, c) ==
    1 * CountOf(b, "p", c) + 3 * CountOf(b, "n", c) + 3 * CountOf(b, "b", c)
    + 5 * CountOf(b, "r", c) + 9 * CountOf(b, "q", c) + 0 * CountOf(b, "k", c)

\* C15: the material scores are those of the piece placement alone, and the point
\* difference shown is whiteScore - blackScore of the current position, whatever the
\* moves, the history, the selection and the difficulty that led to it.
C15_ScoreFromPlacement ==
    /\ whiteScore(game.pos.board) = Material(game.pos.board, "w")
    /\ blackScore(game.pos.board) = Material(game.pos.board, "b")
    /\ pointDifference = Material(game.pos.board, "w") - Material(game.pos.board, "b")

\* C15 witness: after a promotion to a rook, with a square selected and another
\* difficulty than the initial one
C15_Witness ==
    /\ \E s \in Squares : game.pos.board[s].type = "r"
    /\ pointDifference # 0
    /\ selectedSquare # NoSquare
    /\ botDifficulty # 0

\* C16: resetGame cancels no pending bot reply; a reply that fires after a reset is
\* computed on the position its human move left, not on the reset position, and its
\* result replaces the reset position.
C16_ReplyOutlivesReset ==
    [][/\ UserAction(resetGame) => timers' = timers
       /\ (/\ TimerFires
           /\ game = NewChess(DefaultPosition)
           /\ moveHistory = <<>>
           /\ Moves(Head(timers).game) # <<>>)
          => LET stale == Head(timers).game IN
             /\ stale.history # <<>>
             /\ game'.pos # DefaultPosition
             /\ \E b \in MoveSet(Moves(stale)) : game'.pos = PositionAfter(stale.pos, b)
      ]_vars

\* C16 witness: a reply fired on an empty history, as after a reset, and the position
\* is two half-moves from the starting position
C16_Witness ==
    /\ timers = <<>>
    /\ Len(moveHistory) = 1
    /\ moveHistory[1][1] = UndefinedToken
    /\ PlyOf(game.pos) = 2

\* a human move has just been applied after a completed move pair, and its reply is
\* pending
HumanMoveAwaitingReply ==
    /\ Len(timers) = 1
    /\ elapsed = <<0>>
    /\ Len(moveHistory) >= 2
    /\ Len(LastRow(moveHistory)) = 2
    /\ Len(LastRow(AllButLastRow(moveHistory))) = 3

\* C17: undoMove, invoked right after a human move and before the bot reply, reverts
\* that move and the move before it (the previous bot reply) and removes the last row.
C17_UndoDiscardsExtraMove ==
    HumanMoveAwaitingReply
    => ENABLED (/\ UserAction(undoMove)
                /\ moveHistory' = AllButLastRow(moveHistory)
                /\ \E b \in MoveSet(LegalMoves(game'.pos)) :
                      \E h \in MoveSet(LegalMoves(PositionAfter(game'.pos, b))) :
                         PositionAfter(PositionAfter(game'.pos, b), h) = game.pos)

\* the places of the moves of a list that are flagged capture or en passant
CaptureIndexes(moves) == {i \in 1..Len(moves) : FlaggedCapture(moves[i])}
FirstOf(S) == CHOOSE i \in S : \A j \in S : i <= j
LastOf(S) == CHOOSE i \in S : \A j \in S : j <= i
\* the Advanced tier ran on a list with several captures
AdvancedRanOnSeveralCaptures ==
    /\ "makeBotMove" \in locals.ran
    /\ botDifficulty = 2
    /\ Cardinality(CaptureIndexes(locals.moves)) >= 2

\* C18: in the Advanced tier, on a list with several capture or en-passant moves, the
\* move returned is the first of them in list order.
C18_AdvancedReturnsFirstCapture ==
    AdvancedRanOnSeveralCaptures
        => locals.move = locals.moves[FirstOf(CaptureIndexes(locals.moves))]

\* C18 as the code has it: in the Advanced tier, on a list with several capture or
\* en-passant moves, the move returned is the last of them in list order.
C18_AdvancedReturnsLastCapture ==
    AdvancedRanOnSeveralCaptures
        => locals.move = locals.moves[LastOf(CaptureIndexes(locals.moves))]

\* C18 witness: the Advanced tier ran on a list whose first and last moves are
\* captures, and returned the last
C18_Witness ==
    /\ AdvancedRanOnSeveralCaptures
    /\ Len(locals.moves) = 3
    /\ CaptureIndexes(locals.moves) = {1, 3}
    /\ locals.move = locals.moves[3]

\* 2 for capture or en passant, else 1 for promotion or the king-side flag, else 0
TierScore(m) ==
    IF m.flags \cap {"c", "e"} # {} THEN 2
    ELSE IF m.flags \cap {"p", "k"} # {} THEN 1
    ELSE 0
\* the place of the earliest move with the maximal score
EarliestBest(moves) ==
    CHOOSE i \in 1..Len(moves) :
        \A j \in 1..Len(moves) :
            /\ TierScore(moves[j]) <= TierScore(moves[i])
            /\ TierScore(moves[j]) = TierScore(moves[i]) => i <= j

\* C19: on every non-empty list the Grand Master tier returns the earliest move among
\* those with the maximal score (2 capture or en passant, 1 promotion or king-side
\* flag, 0 otherwise), whatever the random index: the first move when all score alike.
C19_GrandMasterEarliestBest ==
    ("makeBotMove" \in locals.ran /\ botDifficulty = 3)
        => locals.move = locals.moves[EarliestBest(locals.moves)]

\* C19 witness: the Grand Master tier ran on three moves of equal score with the
\* random index on the last, and returned the first
C19_Witness ==
    /\ "makeBotMove" \in locals.ran
    /\ botDifficulty = 3
    /\ Len(locals.moves) = 3
    /\ \A i \in 1..3 : TierScore(locals.moves[i]) = 1
    /\ locals.random = 3
    /\ locals.move = locals.moves[1]

\* C20: the two sides are never mixed: every move accepted from a click is a move of
\* white, every move a bot reply applies is a move of black, and at most one bot reply
\* is pending.
C20_SidesNeverMixed ==
    [][/\ \A sq \in Squares :
             (/\ selectedSquare \notin {NoSquare, sq}
              /\ MoveResult(game, selectedSquare, sq, "q") # NoMove
              /\ UserAction(handleSquareClick(sq)))
             => MoveResult(game, selectedSquare, sq, "q").color = "w"
       /\ (TimerFires /\ Moves(Head(timers).game) # <<>>)
             => Turn(Head(timers).game) = "b"
       /\ Len(timers') <= 1
      ]_vars

\* C21: a selected square holds, in the current position, a piece of the side to move.
C21_SelectionIsOwnPiece ==
    selectedSquare # NoSquare
        => /\ Get(game, selectedSquare) # Empty
           /\ Get(game, selectedSquare).color = Turn(game)

\* a row is a turn number and a human notation, followed by at most one bot notation
WellFormedRow(row) ==
    /\ Len(row) \in {2, 3}
    /\ row[1].kind = "number"
    /\ \A i \in 2..Len(row) : row[i].kind = "san"
WellFormedRows(h) == \A k \in 1..Len(h) : WellFormedRow(h[k])

\* C22: every history row is a turn number and a human notation followed by at most
\* one bot notation, and a bot reply appends its notation to the row of the human move
\* that scheduled it and to no other or missing row.
C22_RowsWellFormed ==
    [][/\ WellFormedRows(moveHistory')
       /\ (TimerFires /\ Moves(Head(timers).game) # <<>>)
          => LET replied == Head(timers).game
                 before == replied.history[Len(replied.history)]
             IN \E h \in MoveSet(LegalMoves(before)), b \in MoveSet(Moves(replied)) :
                \E k \in 1..Len(moveHistory) :
                   /\ PositionAfter(before, h) = replied.pos
                   /\ Len(moveHistory[k]) = 2
                   /\ moveHistory[k][2] = SanToken(h)
                   /\ moveHistory' = [moveHistory EXCEPT ![k] = Append(@, SanToken(b))]
      ]_vars

\* C23: a bot reply uses the difficulty selected when its human move was accepted; a
\* change of difficulty while the reply is pending changes neither the pending reply
\* nor its tier.
C23_ReplyUsesDifficultyAtAcceptance ==
    [][/\ \A sq \in Squares :
             (/\ selectedSquare \notin {NoSquare, sq}
              /\ MoveResult(game, selectedSquare, sq, "q") # NoMove
              /\ UserAction(handleSquareClick(sq)))
             => /\ Len(timers') = Len(timers) + 1
                /\ timers'[Len(timers')].botDifficulty = botDifficulty
       /\ \A index \in 0..3 : UserAction(setBotDifficulty(index)) => timers' = timers
       /\ (TimerFires /\ Moves(Head(timers).game) # <<>>)
          => LET replied == Head(timers).game IN
             \E random \in 1..Len(Moves(replied)) :
                game'.pos = PositionAfter(replied.pos,
                                chooseBotMove(Moves(replied), Head(timers).botDifficulty, random))
      ]_vars

\* C23 witness: a reply scheduled under Grand Master is pending and the difficulty has
\* been changed since
C23_Witness ==
    /\ Len(timers) = 1
    /\ Head(timers).botDifficulty = 3
    /\ botDifficulty = 0
    /\ Len(Moves(Head(timers).game)) > 1
====
